---- MODULE Spec2Model ----
(***************************************************************************)
(* The upload task engine of packages/storage (UploadTask): its state      *)
(* machine, the step loop, the observer fan-out and the completion         *)
(* promise, with the authorization provider and the backend requests as    *)
(* the environment.                                                        *)
(***************************************************************************)
EXTENDS Integers, Sequences, FiniteSets, TLC

\* ------------------------------------------------------------------ bounds
\* Observers registered over one run (each on() creates a new Observer).
MaxObservers == 1
\* Callbacks scheduled by fbsAsync and not yet run.
MaxQueue == 1
\* Handles available for pending token resolutions / outstanding requests.
MaxPending == 2
\* The same two limits in the runs that watch the observers: two observers, and
\* room for two notification passes over both.
WatchedObservers == 2
WatchedQueue == 4

\* ------------------------------------------------------- program constants
\* _shouldDoResumable: blob.size() > 256 * 1024
ResumableThreshold == 262144
\* _increaseMultiplier: currentSize < 32 * 1024 * 1024
MaxChunkSize == 33554432
\* fbsRequests.resumableUploadChunkSize
resumableUploadChunkSize == 262144

\* Payload sizes of the runs: one byte and exactly the threshold (one-shot), and
\* three base chunks (resumable: a 1-chunk continue, then a finalizing 2-chunk
\* continue).
BlobSizes == {1, ResumableThreshold, 3 * resumableUploadChunkSize}

\* The payload of the runs that watch the observers: two bytes, uploaded in one
\* shot.
WatchedSize == 2

\* Failures a request or the request construction can report (not 'canceled').
Failures == {"e1", "e2"}
\* Session URLs the backend hands out.
Urls == {"u1"}
\* Metadata the backend returns on finalize / metadata fetch.
ServerMetadata == {"m1"}

InternalTaskState == {"RUNNING", "PAUSING", "PAUSED", "CANCELING", "CANCELED", "ERROR", "SUCCESS"}
Steps == {"create", "status", "metadata", "continue", "oneshot"}

VARIABLES
    blobSize,             \* _blob.size()
    baseChunkSize,        \* fbsRequests.resumableUploadChunkSize as seen by the task
    resumable,            \* _resumable
    state,                \* _state
    transferred,          \* _transferred
    needToFetchStatus,    \* _needToFetchStatus
    needToFetchMetadata,  \* _needToFetchMetadata
    observers,            \* _observers (sequence of observer ids)
    error,                \* _error ("none" = null)
    uploadUrl,            \* _uploadUrl ("null" = null)
    request,              \* _request (0 = null, else the id of the handle)
    chunkMultiplier,      \* _chunkMultiplier
    resolve,              \* _resolve / _reject are non-null
    metadata,             \* _metadata
    promise,              \* _promise: [status, error, state, transferred, metadata]
    settleCalls,          \* number of resolve/reject invocations scheduled
    tokens,               \* pending getAuthToken() resolutions, with their closures
    calls,                \* requests handed out by makeRequest and not yet completed
    queue,                \* callbacks scheduled through fbsAsync, oldest first
    nextObserver,         \* id of the next Observer object
    deleted,              \* StorageService.deleted_
    requests,             \* StorageService.requests_ (ids of the tracked requests)
    deletedIn,            \* _state when deleteApp() was called ("none" before)
    op,                   \* the last operation / event handled
    ret,                  \* the value the last control operation returned
    arg,                  \* the error the last event reported ("none" if none)
    prevState,            \* _state before the last operation / event
    prevTransferred,      \* _transferred before the last operation / event
    prevMultiplier,       \* _chunkMultiplier before the last operation / event
    reported,             \* the offset the backend reported last (-1 before any)
    streak,               \* continue calls that succeeded since the last failure or interruption
    quiet,                \* no control operation, failure or interruption so far
    issued                \* the requests made so far, in order, while the run is quiet

vars == <<blobSize, baseChunkSize, resumable, state, transferred, needToFetchStatus,
          needToFetchMetadata, observers, error, uploadUrl, request, chunkMultiplier,
          resolve, metadata, promise, settleCalls, tokens, calls, queue,
          nextObserver, deleted, requests, deletedIn, op, ret, arg, prevState, prevTransferred, prevMultiplier,
          reported, streak, quiet,
          issued>>

\* The task and its environment as one value, so that the handlers compose.
Cur ==
    [ blobSize |-> blobSize, baseChunkSize |-> baseChunkSize, resumable |-> resumable,
      state |-> state, transferred |-> transferred,
      needToFetchStatus |-> needToFetchStatus, needToFetchMetadata |-> needToFetchMetadata,
      observers |-> observers, error |-> error, uploadUrl |-> uploadUrl,
      request |-> request, chunkMultiplier |-> chunkMultiplier, resolve |-> resolve,
      metadata |-> metadata, promise |-> promise, settleCalls |-> settleCalls,
      tokens |-> tokens, calls |-> calls, queue |-> queue,
      nextObserver |-> nextObserver, deleted |-> deleted, requests |-> requests,
      deletedIn |-> deletedIn, reported |-> reported, streak |-> streak, quiet |-> quiet,
      issued |-> issued, inBounds |-> TRUE ]

\* The task after a handler ran; a handler that would exceed a bound is not taken.
Becomes(t) ==
    /\ t.inBounds
    /\ blobSize' = t.blobSize
    /\ baseChunkSize' = t.baseChunkSize
    /\ resumable' = t.resumable
    /\ state' = t.state
    /\ transferred' = t.transferred
    /\ needToFetchStatus' = t.needToFetchStatus
    /\ needToFetchMetadata' = t.needToFetchMetadata
    /\ observers' = t.observers
    /\ error' = t.error
    /\ uploadUrl' = t.uploadUrl
    /\ request' = t.request
    /\ chunkMultiplier' = t.chunkMultiplier
    /\ resolve' = t.resolve
    /\ metadata' = t.metadata
    /\ promise' = t.promise
    /\ settleCalls' = t.settleCalls
    /\ tokens' = t.tokens
    /\ calls' = t.calls
    /\ queue' = t.queue
    /\ nextObserver' = t.nextObserver
    /\ deleted' = t.deleted
    /\ requests' = t.requests
    /\ deletedIn' = t.deletedIn
    /\ reported' = t.reported
    /\ streak' = t.streak
    /\ quiet' = t.quiet
    /\ issued' = t.issued

Min(a, b) == IF a < b THEN a ELSE b

\* ------------------------------------------------------------ task enums
taskStateFromInternalTaskState(s) ==
    CASE s \in {"RUNNING", "PAUSING", "CANCELING"} -> "running"
      [] s = "PAUSED" -> "paused"
      [] s = "SUCCESS" -> "success"
      [] s = "CANCELED" -> "canceled"
      [] s = "ERROR" -> "error"
      [] OTHER -> "error"

\* ------------------------------------------------- observers and promise
\* fbsAsync(f)(): f runs later, with the arguments bound now.
QueueRoom(t) == IF t.blobSize = WatchedSize THEN WatchedQueue ELSE MaxQueue

fbsAsync(t, cb) ==
    IF Len(t.queue) >= QueueRoom(t) THEN [t EXCEPT !.inBounds = FALSE]
    ELSE [t EXCEPT !.queue = Append(@, cb)]

Callback(o, channel, t) ==
    [ obs |-> o, channel |-> channel,
      state |-> IF channel = "next" THEN taskStateFromInternalTaskState(t.state) ELSE "none",
      transferred |-> IF channel = "next" THEN t.transferred ELSE 0,
      total |-> IF channel = "next" THEN t.blobSize ELSE 0,
      metadata |-> IF channel = "next" THEN t.metadata ELSE "none",
      error |-> IF channel = "error" THEN t.error ELSE "none" ]

\* _notifyObserver whose CANCELED / ERROR case calls the complete handler.
NotifyObserverCompleteOnError(t, o) ==
    LET externalState == taskStateFromInternalTaskState(t.state) IN
    CASE externalState \in {"running", "paused"} -> fbsAsync(t, Callback(o, "next", t))
      [] OTHER -> fbsAsync(t, Callback(o, "complete", t))

\* The observers of the runs have all three handlers (next, error, complete).
_notifyObserver(t, o) ==
    LET externalState == taskStateFromInternalTaskState(t.state) IN
    CASE externalState \in {"running", "paused"} -> fbsAsync(t, Callback(o, "next", t))
      [] externalState = "success" -> fbsAsync(t, Callback(o, "complete", t))
      [] externalState \in {"canceled", "error"} -> fbsAsync(t, Callback(o, "error", t))
      [] OTHER -> fbsAsync(t, Callback(o, "error", t))

\* fbsAsync(this._resolve.bind(null, this.snapshot))(): the settlement is scheduled
\* with its argument bound now and is counted here. A promise takes the first
\* settlement and ignores any later one.
Settle(t, outcome) ==
    [t EXCEPT !.settleCalls = @ + 1,
              !.promise = IF @.status = "pending" THEN outcome ELSE @]

\* _finishPromise whose default branch forgets `triggered = false`.
FinishPromiseAlwaysTriggered(t) ==
    IF t.resolve
    THEN LET externalState == taskStateFromInternalTaskState(t.state) IN
         CASE externalState = "success" ->
                [Settle(t, [status |-> "fulfilled", error |-> "none", state |-> externalState,
                            transferred |-> t.transferred, metadata |-> t.metadata])
                    EXCEPT !.resolve = FALSE]
           [] externalState \in {"canceled", "error"} ->
                [Settle(t, [status |-> "rejected", error |-> t.error, state |-> "none",
                            transferred |-> 0, metadata |-> "none"])
                    EXCEPT !.resolve = FALSE]
           [] OTHER -> [t EXCEPT !.resolve = FALSE]
    ELSE t

_finishPromise(t) ==
    IF t.resolve
    THEN LET externalState == taskStateFromInternalTaskState(t.state) IN
         CASE externalState = "success" ->
                [Settle(t, [status |-> "fulfilled", error |-> "none", state |-> externalState,
                            transferred |-> t.transferred, metadata |-> t.metadata])
                    EXCEPT !.resolve = FALSE]
           [] externalState \in {"canceled", "error"} ->
                [Settle(t, [status |-> "rejected", error |-> t.error, state |-> "none",
                            transferred |-> 0, metadata |-> "none"])
                    EXCEPT !.resolve = FALSE]
           [] OTHER -> t
    ELSE t

RECURSIVE NotifyEach(_, _)
NotifyEach(t, os) ==
    IF os = <<>> THEN t ELSE NotifyEach(_notifyObserver(t, Head(os)), Tail(os))

_notifyObservers(t) ==
    LET t1 == _finishPromise(t) IN NotifyEach(t1, t1.observers)

\* _addObserver that puts the new observer first (unshift for push).
AddObserverAtFront(t, o) ==
    _notifyObserver([t EXCEPT !.observers = <<o>> \o @], o)

\* _addObserver without the _notifyObserver call.
AddObserverSilent(t, o) == [t EXCEPT !.observers = Append(@, o)]

_addObserver(t, o) ==
    _notifyObserver([t EXCEPT !.observers = Append(@, o)], o)

\* _removeObserver with splice(i) for splice(i, 1): the observers registered
\* after this one go too.
RECURSIVE UpTo(_, _)
UpTo(os, o) ==
    IF os = <<>> \/ Head(os) = o THEN <<>> ELSE <<Head(os)>> \o UpTo(Tail(os), o)

RemoveObserverAndLater(t, o) == [t EXCEPT !.observers = UpTo(@, o)]

_removeObserver(t, o) ==
    [t EXCEPT !.observers = SelectSeq(@, LAMBDA x : x # o)]

\* _updateProgress that notifies before it assigns _transferred.
UpdateProgressNotifyFirst(t, n) ==
    IF n # t.transferred
    THEN [_notifyObservers(t) EXCEPT !.transferred = n]
    ELSE t

_updateProgress(t, n) ==
    LET old == t.transferred
        t1 == [t EXCEPT !.transferred = n]
    IN  IF t1.transferred # old THEN _notifyObservers(t1) ELSE t1

\* ------------------------------------------------------------- step loop
FreeIds(used) == {i \in 1..MaxPending : i \notin used}
FreeId(used) == CHOOSE i \in FreeIds(used) : \A j \in FreeIds(used) : i <= j

\* getAuthToken().then(...): the step waits for the token; the closure keeps what
\* the step computed before asking for it.
_resolveToken(t, step, chunkSize, current) ==
    LET used == {k.id : k \in t.tokens} IN
    IF FreeIds(used) = {} THEN [t EXCEPT !.inBounds = FALSE]
    ELSE [t EXCEPT !.tokens = @ \cup {[id |-> FreeId(used), step |-> step,
                                        chunkSize |-> chunkSize, current |-> current]}]

_createResumable(t) == _resolveToken(t, "create", 0, 0)

_fetchStatus(t) == _resolveToken(t, "status", 0, 0)

\* _continueUpload that always asks for the base chunk size.
ContinueUploadFixedChunk(t) ==
    _resolveToken(t, "continue", t.baseChunkSize, t.transferred)

_continueUpload(t) ==
    _resolveToken(t, "continue", t.baseChunkSize * t.chunkMultiplier, t.transferred)

_fetchMetadata(t) == _resolveToken(t, "metadata", 0, 0)

_oneShotUpload(t) == _resolveToken(t, "oneshot", 0, 0)

\* _increaseMultiplier without the 32 MiB test.
IncreaseMultiplierUncapped(t) == [t EXCEPT !.chunkMultiplier = @ * 2]

\* _increaseMultiplier with <= for < in the 32 MiB test.
IncreaseMultiplierLateCap(t) ==
    LET currentSize == t.baseChunkSize * t.chunkMultiplier IN
    IF currentSize <= MaxChunkSize THEN [t EXCEPT !.chunkMultiplier = @ * 2] ELSE t

_increaseMultiplier(t) ==
    LET currentSize == t.baseChunkSize * t.chunkMultiplier IN
    IF currentSize < MaxChunkSize THEN [t EXCEPT !.chunkMultiplier = @ * 2] ELSE t

\* _shouldDoResumable with >= for >.
ShouldDoResumableFromThreshold(size) == size >= ResumableThreshold

_shouldDoResumable(size) == size > ResumableThreshold

\* _start that looks at the status flag before the session URL.
StartStatusFirst(t) ==
    IF t.state # "RUNNING" THEN t
    ELSE IF t.request # 0 THEN t
    ELSE IF t.resumable
         THEN IF t.needToFetchStatus THEN _fetchStatus(t)
              ELSE IF t.uploadUrl = "null" THEN _createResumable(t)
              ELSE IF t.needToFetchMetadata THEN _fetchMetadata(t)
              ELSE _continueUpload(t)
         ELSE _oneShotUpload(t)

\* _start that fetches the status whenever the flag is set, resumable or not.
StartStatusWhenFlagged(t) ==
    IF t.state # "RUNNING" THEN t
    ELSE IF t.request # 0 THEN t
    ELSE IF t.needToFetchStatus THEN _fetchStatus(t)
    ELSE IF t.resumable
         THEN IF t.uploadUrl = "null" THEN _createResumable(t)
              ELSE IF t.needToFetchMetadata THEN _fetchMetadata(t)
              ELSE _continueUpload(t)
         ELSE _oneShotUpload(t)

_start(t) ==
    IF t.state # "RUNNING" THEN t
    ELSE IF t.request # 0 THEN t
    ELSE IF t.resumable
         THEN IF t.uploadUrl = "null" THEN _createResumable(t)
              ELSE IF t.needToFetchStatus THEN _fetchStatus(t)
              ELSE IF t.needToFetchMetadata THEN _fetchMetadata(t)
              ELSE _continueUpload(t)
         ELSE _oneShotUpload(t)

\* Request.cancel() on these handles; on a FailRequest it does nothing.
CancelRequests(cs, ids) ==
    {IF c.id \in ids /\ ~c.fail THEN [c EXCEPT !.canceled = TRUE] ELSE c : c \in cs}

\* Request.cancel() on the handle in _request.
RequestCancel(t) ==
    IF t.request # 0
    THEN [t EXCEPT !.calls = CancelRequests(@, {t.request})]
    ELSE t

\* _transition whose RUNNING branch starts a step also when coming from PAUSING.
TransitionAlwaysStarts(t, s) ==
    IF t.state = s THEN t
    ELSE CASE s = "CANCELING" -> RequestCancel([t EXCEPT !.state = s])
           [] s = "PAUSING" -> RequestCancel([t EXCEPT !.state = s])
           [] s = "RUNNING" -> _start(_notifyObservers([t EXCEPT !.state = s]))
           [] s = "PAUSED" -> _notifyObservers([t EXCEPT !.state = s])
           [] s = "CANCELED" -> _notifyObservers([t EXCEPT !.error = "canceled", !.state = s])
           [] s = "ERROR" -> _notifyObservers([t EXCEPT !.state = s])
           [] s = "SUCCESS" -> _notifyObservers([t EXCEPT !.state = s])
           [] OTHER -> t

\* _transition whose RUNNING branch starts the step without notifying the observers.
TransitionResumeSilent(t, s) ==
    IF t.state = s THEN t
    ELSE CASE s = "CANCELING" -> RequestCancel([t EXCEPT !.state = s])
           [] s = "PAUSING" -> RequestCancel([t EXCEPT !.state = s])
           [] s = "RUNNING" ->
                LET wasPaused == t.state = "PAUSED"
                    t1 == [t EXCEPT !.state = s]
                IN  IF wasPaused THEN _start(t1) ELSE t1
           [] s = "PAUSED" -> _notifyObservers([t EXCEPT !.state = s])
           [] s = "CANCELED" -> _notifyObservers([t EXCEPT !.error = "canceled", !.state = s])
           [] s = "ERROR" -> _notifyObservers([t EXCEPT !.state = s])
           [] s = "SUCCESS" -> _notifyObservers([t EXCEPT !.state = s])
           [] OTHER -> t

\* _transition whose RUNNING branch notifies the observers also when coming from PAUSING.
TransitionResumeNotifies(t, s) ==
    IF t.state = s THEN t
    ELSE CASE s = "CANCELING" -> RequestCancel([t EXCEPT !.state = s])
           [] s = "PAUSING" -> RequestCancel([t EXCEPT !.state = s])
           [] s = "RUNNING" ->
                LET wasPaused == t.state = "PAUSED"
                    t1 == _notifyObservers([t EXCEPT !.state = s])
                IN  IF wasPaused THEN _start(t1) ELSE t1
           [] s = "PAUSED" -> _notifyObservers([t EXCEPT !.state = s])
           [] s = "CANCELED" -> _notifyObservers([t EXCEPT !.error = "canceled", !.state = s])
           [] s = "ERROR" -> _notifyObservers([t EXCEPT !.state = s])
           [] s = "SUCCESS" -> _notifyObservers([t EXCEPT !.state = s])
           [] OTHER -> t

_transition(t, s) ==
    IF t.state = s THEN t
    ELSE CASE s = "CANCELING" -> RequestCancel([t EXCEPT !.state = s])
           [] s = "PAUSING" -> RequestCancel([t EXCEPT !.state = s])
           [] s = "RUNNING" ->
                LET wasPaused == t.state = "PAUSED"
                    t1 == [t EXCEPT !.state = s]
                IN  IF wasPaused THEN _start(_notifyObservers(t1)) ELSE t1
           [] s = "PAUSED" -> _notifyObservers([t EXCEPT !.state = s])
           [] s = "CANCELED" -> _notifyObservers([t EXCEPT !.error = "canceled", !.state = s])
           [] s = "ERROR" -> _notifyObservers([t EXCEPT !.state = s])
           [] s = "SUCCESS" -> _notifyObservers([t EXCEPT !.state = s])
           [] OTHER -> t

\* completeTransitions_ without its CANCELING case.
CompleteTransitionsNoCancel(t) ==
    CASE t.state = "PAUSING" -> _transition(t, "PAUSED")
      [] t.state = "RUNNING" -> _start(t)
      [] OTHER -> t

\* completeTransitions_ without its RUNNING case.
CompleteTransitionsNoRestart(t) ==
    CASE t.state = "PAUSING" -> _transition(t, "PAUSED")
      [] t.state = "CANCELING" -> _transition(t, "CANCELED")
      [] OTHER -> t

completeTransitions_(t) ==
    CASE t.state = "PAUSING" -> _transition(t, "PAUSED")
      [] t.state = "CANCELING" -> _transition(t, "CANCELED")
      [] t.state = "RUNNING" -> _start(t)
      [] OTHER -> t

\* _errorHandler that does not store the error before going to ERROR.
ErrorHandlerDropsError(t, e) ==
    LET t1 == [t EXCEPT !.request = 0, !.chunkMultiplier = 1] IN
    IF e = "canceled"
    THEN completeTransitions_([t1 EXCEPT !.needToFetchStatus = TRUE])
    ELSE _transition(t1, "ERROR")

\* _errorHandler that treats 'canceled' like any other failure.
ErrorHandlerNoCancelCase(t, e) ==
    LET t1 == [t EXCEPT !.request = 0, !.chunkMultiplier = 1] IN
    _transition([t1 EXCEPT !.error = e], "ERROR")

\* _errorHandler that re-drives after 'canceled' without asking for a status refetch.
ErrorHandlerNoRefetch(t, e) ==
    LET t1 == [t EXCEPT !.request = 0, !.chunkMultiplier = 1] IN
    IF e = "canceled"
    THEN completeTransitions_(t1)
    ELSE _transition([t1 EXCEPT !.error = e], "ERROR")

\* _errorHandler without `_chunkMultiplier = 1`.
ErrorHandlerKeepsMultiplier(t, e) ==
    LET t1 == [t EXCEPT !.request = 0] IN
    IF e = "canceled"
    THEN completeTransitions_([t1 EXCEPT !.needToFetchStatus = TRUE])
    ELSE _transition([t1 EXCEPT !.error = e], "ERROR")

_errorHandler(t, e) ==
    LET t1 == [t EXCEPT !.request = 0, !.chunkMultiplier = 1] IN
    IF e = "canceled"
    THEN completeTransitions_([t1 EXCEPT !.needToFetchStatus = TRUE])
    ELSE _transition([t1 EXCEPT !.error = e], "ERROR")

\* _metadataErrorHandler that starts the fetch again whatever the error is.
MetadataErrorHandlerRetries(t, e) ==
    completeTransitions_([t EXCEPT !.request = 0])

\* _metadataErrorHandler that asks for a status refetch after 'canceled', as
\* _errorHandler does.
MetadataErrorHandlerRefetches(t, e) ==
    LET t1 == [t EXCEPT !.request = 0] IN
    IF e = "canceled"
    THEN completeTransitions_([t1 EXCEPT !.needToFetchStatus = TRUE])
    ELSE _transition([t1 EXCEPT !.error = e], "ERROR")

_metadataErrorHandler(t, e) ==
    LET t1 == [t EXCEPT !.request = 0] IN
    IF e = "canceled"
    THEN completeTransitions_(t1)
    ELSE _transition([t1 EXCEPT !.error = e], "ERROR")

\* ------------------------------------------------------------ requests
\* service.makeRequest that does not look at deleted_.
MakeRequestIgnoresDeletion(t, kind, current, bytes) ==
    LET used == {c.id : c \in t.calls} IN
    IF FreeIds(used) = {} THEN [t EXCEPT !.inBounds = FALSE]
    ELSE [t EXCEPT !.request = FreeId(used),
                   !.calls = @ \cup {[id |-> FreeId(used), kind |-> kind, canceled |-> FALSE,
                                      fail |-> FALSE,
                                      current |-> current, bytes |-> bytes,
                                      sizeBefore |-> t.transferred]},
                   !.requests = @ \cup {FreeId(used)},
                   !.issued = IF t.quiet
                              THEN Append(@, [kind |-> kind, current |-> current,
                                              bytes |-> bytes])
                              ELSE @]

\* service.makeRequest(requestInfo, authToken), stored in _request: a request
\* that is tracked until it completes, or after deleteApp() a FailRequest.
makeRequest(t, kind, current, bytes) ==
    LET used == {c.id : c \in t.calls} IN
    IF FreeIds(used) = {} THEN [t EXCEPT !.inBounds = FALSE]
    ELSE [t EXCEPT !.request = FreeId(used),
                   !.calls = @ \cup {[id |-> FreeId(used), kind |-> kind, canceled |-> FALSE,
                                      fail |-> t.deleted,
                                      current |-> current, bytes |-> bytes,
                                      sizeBefore |-> t.transferred]},
                   !.requests = IF t.deleted THEN @ ELSE @ \cup {FreeId(used)},
                   !.issued = IF t.quiet
                              THEN Append(@, [kind |-> kind, current |-> current,
                                              bytes |-> bytes])
                              ELSE @]

\* continueResumableUpload: the chunk is what is left, at most chunkSize.
BytesToUpload(t, k) ==
    LET bytesLeft == t.blobSize - k.current IN
    IF k.chunkSize > 0 THEN Min(bytesLeft, k.chunkSize) ELSE bytesLeft

\* The callback a step hands to _resolveToken, run with the token in RUNNING.
StepCallback(t, k) ==
    IF k.step = "continue"
    THEN makeRequest(t, "continue", k.current, BytesToUpload(t, k))
    ELSE makeRequest(t, k.step, 0, 0)

\* The then() of getAuthToken() in _resolveToken.
\* _resolveToken with the CANCELING and PAUSING cases swapped.
TokenHandlerSwapped(t, k) ==
    CASE t.state = "RUNNING" -> StepCallback(t, k)
      [] t.state = "CANCELING" -> _transition(t, "PAUSED")
      [] t.state = "PAUSING" -> _transition(t, "CANCELED")
      [] OTHER -> t

\* _resolveToken that runs the callback whatever the state is.
TokenHandlerIgnoresState(t, k) == StepCallback(t, k)

TokenHandler(t, k) ==
    CASE t.state = "RUNNING" -> StepCallback(t, k)
      [] t.state = "CANCELING" -> _transition(t, "CANCELED")
      [] t.state = "PAUSING" -> _transition(t, "PAUSED")
      [] OTHER -> t

\* catch (e) of _continueUpload: building the request threw.
ContinueCatch(t, e) == _transition([t EXCEPT !.error = e], "ERROR")

\* What the backend answers to a continue: the new offset, and final when the
\* chunk was the last one.
ContinueResult(t, c) ==
    [current |-> c.current + c.bytes, finalized |-> (c.bytes = t.blobSize - c.current)]

\* What the backend may answer to a status fetch.
StatusResults(t) ==
    {r \in [current : {0, t.baseChunkSize, t.blobSize}, finalized : BOOLEAN] :
        /\ r.current <= t.blobSize
        /\ r.finalized => r.current = t.blobSize}

\* The success handlers of the five requests.
CreateSuccess(t, url) ==
    completeTransitions_([t EXCEPT !.request = 0, !.uploadUrl = url,
                                   !.needToFetchStatus = FALSE])

\* The success handler of the status fetch without _updateProgress(status.current).
StatusSuccessNoProgress(t, status) ==
    LET t2 == [t EXCEPT !.request = 0, !.needToFetchStatus = FALSE]
        t3 == IF status.finalized THEN [t2 EXCEPT !.needToFetchMetadata = TRUE] ELSE t2
    IN  completeTransitions_(t3)

\* The success handler of the status fetch that leaves _needToFetchStatus set.
StatusSuccessKeepsFlag(t, status) ==
    LET t1 == _updateProgress([t EXCEPT !.request = 0], status.current)
        t3 == IF status.finalized THEN [t1 EXCEPT !.needToFetchMetadata = TRUE] ELSE t1
    IN  completeTransitions_(t3)

StatusSuccess(t, status) ==
    LET t1 == _updateProgress([t EXCEPT !.request = 0], status.current)
        t2 == [t1 EXCEPT !.needToFetchStatus = FALSE]
        t3 == IF status.finalized THEN [t2 EXCEPT !.needToFetchMetadata = TRUE] ELSE t2
    IN  completeTransitions_(t3)

\* The success handler of the continue that completes a pending pause or cancel
\* before it looks at the result.
ContinueSuccessHonoursPending(t, newStatus, m) ==
    LET t1 == [_increaseMultiplier(t) EXCEPT !.request = 0]
        t2 == _updateProgress(t1, newStatus.current)
    IN  IF newStatus.finalized /\ t.state = "RUNNING"
        THEN _transition([t2 EXCEPT !.metadata = m], "SUCCESS")
        ELSE completeTransitions_(t2)

ContinueSuccess(t, newStatus, m) ==
    LET t1 == [_increaseMultiplier(t) EXCEPT !.request = 0]
        t2 == _updateProgress(t1, newStatus.current)
    IN  IF newStatus.finalized
        THEN _transition([t2 EXCEPT !.metadata = m], "SUCCESS")
        ELSE completeTransitions_(t2)

MetadataSuccess(t, m) ==
    _transition([t EXCEPT !.request = 0, !.metadata = m], "SUCCESS")

OneShotSuccess(t, m) ==
    LET t1 == [t EXCEPT !.request = 0, !.metadata = m]
    IN  _transition(_updateProgress(t1, t1.blobSize), "SUCCESS")

\* The rejection handler registered for a request of this kind.
RejectHandler(t, kind, e) ==
    IF kind = "metadata" THEN _metadataErrorHandler(t, e) ELSE _errorHandler(t, e)

\* _makeProgressCallback: loaded => _updateProgress(sizeBefore + loaded)
\* _makeProgressCallback that adds the loaded bytes to the running total.
ProgressCallbackAccumulates(t, c, loaded) == _updateProgress(t, t.transferred + loaded)

ProgressCallback(t, c, loaded) == _updateProgress(t, c.sizeBefore + loaded)

ProgressLoads(c) == {c.bytes \div 2, c.bytes}

\* ------------------------------------------------------ control operations
\* resume() that also accepts CANCELING.
ResumeAlsoCanceling(t) ==
    LET valid == t.state \in {"PAUSED", "PAUSING", "CANCELING"} IN
    [task |-> IF valid THEN _transition(t, "RUNNING") ELSE t, ret |-> valid]

resume(t) ==
    LET valid == t.state = "PAUSED" \/ t.state = "PAUSING" IN
    [task |-> IF valid THEN _transition(t, "RUNNING") ELSE t, ret |-> valid]

\* pause() without the validity check.
PauseUnchecked(t) ==
    [task |-> _transition(t, "PAUSING"), ret |-> TRUE]

pause(t) ==
    LET valid == t.state = "RUNNING" IN
    [task |-> IF valid THEN _transition(t, "PAUSING") ELSE t, ret |-> valid]

\* cancel() that accepts every state but CANCELING.
CancelAnyState(t) ==
    LET valid == t.state # "CANCELING" IN
    [task |-> IF valid THEN _transition(t, "CANCELING") ELSE t, ret |-> valid]

cancel(t) ==
    LET valid == t.state = "RUNNING" \/ t.state = "PAUSING" IN
    [task |-> IF valid THEN _transition(t, "CANCELING") ELSE t, ret |-> valid]

\* ------------------------------------------------------------ construction
NewTask(size) ==
    [ blobSize |-> size, baseChunkSize |-> resumableUploadChunkSize,
      resumable |-> _shouldDoResumable(size),
      state |-> "RUNNING", transferred |-> 0,
      needToFetchStatus |-> FALSE, needToFetchMetadata |-> FALSE,
      observers |-> <<>>, error |-> "none", uploadUrl |-> "null",
      request |-> 0, chunkMultiplier |-> 1, resolve |-> TRUE,
      metadata |-> "m0",
      promise |-> [status |-> "pending", error |-> "none", state |-> "none",
                   transferred |-> 0, metadata |-> "none"],
      settleCalls |-> 0, tokens |-> {}, calls |-> {}, queue |-> <<>>,
      nextObserver |-> 1, deleted |-> FALSE, requests |-> {}, deletedIn |-> "none",
      reported |-> -1, streak |-> 0, quiet |-> TRUE, issued |-> <<>>,
      inBounds |-> TRUE ]

\* The constructor: the promise executor runs _start().
Constructed(size) == _start(NewTask(size))

\* The state after `new UploadTask(...)` for a payload of this size, with this
\* base chunk size.
StartsWith(size, chunk) ==
        LET t == [Constructed(size) EXCEPT !.baseChunkSize = chunk] IN
        /\ blobSize = t.blobSize
        /\ baseChunkSize = t.baseChunkSize
        /\ resumable = t.resumable
        /\ state = t.state
        /\ transferred = t.transferred
        /\ needToFetchStatus = t.needToFetchStatus
        /\ needToFetchMetadata = t.needToFetchMetadata
        /\ observers = t.observers
        /\ error = t.error
        /\ uploadUrl = t.uploadUrl
        /\ request = t.request
        /\ chunkMultiplier = t.chunkMultiplier
        /\ resolve = t.resolve
        /\ metadata = t.metadata
        /\ promise = t.promise
        /\ settleCalls = t.settleCalls
        /\ tokens = t.tokens
        /\ calls = t.calls
        /\ queue = t.queue
        /\ nextObserver = t.nextObserver
        /\ deleted = t.deleted
        /\ requests = t.requests
        /\ deletedIn = t.deletedIn
        /\ reported = t.reported
        /\ op = "new"
        /\ ret = FALSE
        /\ arg = "none"
        /\ prevState = "RUNNING"
        /\ prevTransferred = 0
        /\ prevMultiplier = 1
        /\ streak = t.streak
        /\ quiet = t.quiet
        /\ issued = t.issued

Init == \E size \in BlobSizes : StartsWith(size, resumableUploadChunkSize)

\* ---------------------------------------------------------------- actions
\* The token has arrived / the request has completed (and removed itself from
\* the requests the service tracks).
Without(t, field, x) == IF field = "tokens" THEN [t EXCEPT !.tokens = @ \ {x}]
                        ELSE [t EXCEPT !.calls = @ \ {x}, !.requests = @ \ {x.id}]

\* The run is no longer quiet: the record of its requests is dropped.
Disturbed(t) == [t EXCEPT !.quiet = FALSE, !.issued = <<>>]

\* A failure or an interruption ends the streak of successful continue calls.
Interrupted(t) == [Disturbed(t) EXCEPT !.streak = 0]

Pause ==
    /\ Becomes(Disturbed(pause(Cur).task))
    /\ op' = "pause"
    /\ ret' = pause(Cur).ret
    /\ arg' = "none"
    /\ prevState' = state
    /\ prevTransferred' = transferred
    /\ prevMultiplier' = chunkMultiplier

Resume ==
    /\ Becomes(Disturbed(resume(Cur).task))
    /\ op' = "resume"
    /\ ret' = resume(Cur).ret
    /\ arg' = "none"
    /\ prevState' = state
    /\ prevTransferred' = transferred
    /\ prevMultiplier' = chunkMultiplier

Cancel ==
    /\ Becomes(Disturbed(cancel(Cur).task))
    /\ op' = "cancel"
    /\ ret' = cancel(Cur).ret
    /\ arg' = "none"
    /\ prevState' = state
    /\ prevTransferred' = transferred
    /\ prevMultiplier' = chunkMultiplier

\* on(...): a new Observer is added and told the current state.
On ==
    /\ nextObserver <= (IF blobSize = WatchedSize THEN WatchedObservers ELSE MaxObservers)
    /\ Becomes([_addObserver(Cur, nextObserver) EXCEPT !.nextObserver = @ + 1])
    /\ op' = "on"
    /\ ret' = FALSE
    /\ arg' = "none"
    /\ prevState' = state
    /\ prevTransferred' = transferred
    /\ prevMultiplier' = chunkMultiplier

\* The function on() returned, called for an observer still registered.
Unsubscribe ==
    \E i \in 1..Len(observers) :
        /\ Becomes(_removeObserver(Cur, observers[i]))
        /\ op' = "unsubscribe"
        /\ ret' = FALSE
        /\ arg' = "none"
        /\ prevState' = state
        /\ prevTransferred' = transferred
        /\ prevMultiplier' = chunkMultiplier

\* The oldest scheduled callback runs.
Deliver ==
    /\ queue # <<>>
    /\ Becomes([Cur EXCEPT !.queue = Tail(@)])
    /\ op' = "deliver"
    /\ ret' = FALSE
    /\ arg' = "none"
    /\ prevState' = state
    /\ prevTransferred' = transferred
    /\ prevMultiplier' = chunkMultiplier

TokenResolved ==
    \E k \in tokens :
        /\ Becomes(TokenHandler(Without(Cur, "tokens", k), k))
        /\ op' = "token"
        /\ ret' = FALSE
        /\ arg' = "none"
        /\ prevState' = state
        /\ prevTransferred' = transferred
        /\ prevMultiplier' = chunkMultiplier

\* getAuthToken() rejects: the then() of _resolveToken has no rejection handler,
\* so nothing of the task runs.
TokenRejected ==
    \E k \in tokens, e \in Failures :
        /\ Becomes(Interrupted(Without(Cur, "tokens", k)))
        /\ op' = "tokenRejected"
        /\ ret' = FALSE
        /\ arg' = e
        /\ prevState' = state
        /\ prevTransferred' = transferred
        /\ prevMultiplier' = chunkMultiplier

\* The token arrives in RUNNING and continueResumableUpload throws.
ContinueThrows ==
    \E k \in tokens, e \in Failures :
        /\ k.step = "continue"
        /\ state = "RUNNING"
        /\ Becomes(Interrupted(ContinueCatch(Without(Cur, "tokens", k), e)))
        /\ op' = "throw"
        /\ ret' = FALSE
        /\ arg' = e
        /\ prevState' = state
        /\ prevTransferred' = transferred
        /\ prevMultiplier' = chunkMultiplier

CallSucceeds ==
    \E c \in calls :
        LET t == Without(Cur, "calls", c) IN
        /\ ~c.fail
        /\ CASE c.kind = "create" -> \E url \in Urls : Becomes(CreateSuccess(t, url))
             [] c.kind = "status" ->
                  \E r \in StatusResults(t) :
                      Becomes([StatusSuccess(t, r) EXCEPT !.reported = r.current])
             [] c.kind = "continue" ->
                  \E m \in ServerMetadata :
                      Becomes([ContinueSuccess(t, ContinueResult(t, c), m)
                                  EXCEPT !.streak = @ + 1,
                                         !.reported = ContinueResult(t, c).current])
             [] c.kind = "metadata" -> \E m \in ServerMetadata : Becomes(MetadataSuccess(t, m))
             [] c.kind = "oneshot" -> \E m \in ServerMetadata : Becomes(OneShotSuccess(t, m))
        /\ op' = "success"
        /\ ret' = FALSE
        /\ arg' = "none"
        /\ prevState' = state
        /\ prevTransferred' = transferred
        /\ prevMultiplier' = chunkMultiplier

\* A request on which cancel() was called reports 'canceled'.
CallCanceled ==
    \E c \in calls :
        /\ c.canceled
        /\ ~c.fail
        /\ Becomes(Interrupted(RejectHandler(Without(Cur, "calls", c), c.kind, "canceled")))
        /\ op' = "canceled"
        /\ ret' = FALSE
        /\ arg' = "canceled"
        /\ prevState' = state
        /\ prevTransferred' = transferred
        /\ prevMultiplier' = chunkMultiplier

\* A request fails; a FailRequest fails with the error it was made with.
CallFails ==
    \E c \in calls, e \in Failures \cup {"appDeleted"} :
        /\ c.fail <=> (e = "appDeleted")
        /\ Becomes(Interrupted(RejectHandler(Without(Cur, "calls", c), c.kind, e)))
        /\ op' = "failure"
        /\ ret' = FALSE
        /\ arg' = e
        /\ prevState' = state
        /\ prevTransferred' = transferred
        /\ prevMultiplier' = chunkMultiplier

\* A progress event of the outstanding continue request (none after its abort);
\* the events of one request report growing byte counts.
Progress ==
    \E c \in calls :
        /\ c.kind = "continue"
        /\ ~c.canceled
        /\ ~c.fail
        /\ \E loaded \in ProgressLoads(c) :
              /\ c.sizeBefore + loaded >= transferred
              /\ Becomes(ProgressCallback(Cur, c, loaded))
        /\ op' = "progress"
        /\ ret' = FALSE
        /\ arg' = "none"
        /\ prevState' = state
        /\ prevTransferred' = transferred
        /\ prevMultiplier' = chunkMultiplier

Next ==
    \/ Pause
    \/ Resume
    \/ Cancel
    \/ On
    \/ Unsubscribe
    \/ Deliver
    \/ TokenResolved
    \/ TokenRejected
    \/ ContinueThrows
    \/ CallSucceeds
    \/ CallCanceled
    \/ CallFails
    \/ Progress

Spec == Init /\ [][Next]_vars

\* ------------------------------------------------------------ deleted service
\* StorageService.deleteApp(): the tracked requests are cancelled and forgotten.
\* deleteApp that forgets the tracked requests without cancelling them.
DeleteAppKeepsRequests(t) ==
    [t EXCEPT !.deleted = TRUE, !.requests = {}]

deleteApp(t) ==
    [t EXCEPT !.deleted = TRUE,
              !.calls = CancelRequests(@, t.requests),
              !.requests = {}]

DeleteApp ==
    /\ ~deleted
    /\ Becomes([deleteApp(Cur) EXCEPT !.deletedIn = state])
    /\ op' = "deleteApp"
    /\ ret' = FALSE
    /\ arg' = "none"
    /\ prevState' = state
    /\ prevTransferred' = transferred
    /\ prevMultiplier' = chunkMultiplier

\* The runs in which the service may be deleted: an upload that is watched, may
\* be paused and resumed, and whose requests may fail.
NextDeleted ==
    \/ DeleteApp
    \/ Pause
    \/ Resume
    \/ On
    \/ Deliver
    \/ TokenResolved
    \/ CallSucceeds
    \/ CallCanceled
    \/ CallFails
    \/ Progress

SpecDeleted == Init /\ [][NextDeleted]_vars

\* ------------------------------------------------------------ large payloads
\* The runs with large payloads: 10 MiB uploaded with a base chunk of 4 MiB, and
\* 100 MiB uploaded with the base chunk of the program, which takes the chunk
\* size to its limit. No observer is registered in these runs.
LargeRuns ==
    { [size |-> 10 * 1024 * 1024, chunk |-> 4 * 1024 * 1024],
      [size |-> 100 * 1024 * 1024, chunk |-> resumableUploadChunkSize] }

InitLarge == \E r \in LargeRuns : StartsWith(r.size, r.chunk)

NextLarge ==
    \/ Pause
    \/ Resume
    \/ Cancel
    \/ TokenResolved
    \/ TokenRejected
    \/ ContinueThrows
    \/ CallSucceeds
    \/ CallCanceled
    \/ CallFails
    \/ Progress

SpecLarge == InitLarge /\ [][NextLarge]_vars

\* ------------------------------------------------------- pause and resume
\* The runs with pause() and resume() only: no cancel(), no failure, no observer.
\* Every token arrives and every request ends; a task that is paused is resumed.
NextRoundTrip ==
    \/ Pause
    \/ Resume
    \/ TokenResolved
    \/ CallSucceeds
    \/ CallCanceled
    \/ Progress

SpecRoundTrip ==
    /\ Init
    /\ [][NextRoundTrip]_vars
    /\ WF_vars(TokenResolved)
    /\ WF_vars(CallSucceeds \/ CallCanceled)
    /\ WF_vars(Resume /\ state \in {"PAUSING", "PAUSED"})

\* ------------------------------------------------------------ watched runs
\* The runs that watch the observers: a small payload, several observers, and
\* pause(), resume() and the events of the requests; no failures.
InitWatched == StartsWith(WatchedSize, resumableUploadChunkSize)

NextWatched ==
    \/ Pause
    \/ Resume
    \/ On
    \/ Unsubscribe
    \/ Deliver
    \/ TokenResolved
    \/ CallSucceeds
    \/ CallCanceled

SpecWatched == InitWatched /\ [][NextWatched]_vars

\* ------------------------------------------------------------ compat wrapper
\* UploadTaskCompat: the method of the delegate that each of its properties
\* holds (`cancel = this.delegate.cancel`, `pause = this.delegate.pause`,
\* `resume = this.delegate.pause`).
UploadTaskCompat == [cancel |-> "cancel", pause |-> "pause", resume |-> "pause"]

\* The methods are read off the delegate and not bound to it: called as
\* properties of the wrapper they run with the wrapper as `this`, and the
\* wrapper has no _state.
CompatThis == [state |-> "undefined"]

\* The method of UploadTask of this name, run on this object.
Method(name, self) ==
    CASE name = "pause" -> pause(self)
      [] name = "resume" -> resume(self)
      [] name = "cancel" -> cancel(self)

\* What a call of this property of the wrapper returns.
CompatCall(name) == Method(UploadTaskCompat[name], CompatThis).ret

\* compat.pause(), compat.resume(), compat.cancel(): the delegate is not touched.
CompatPause ==
    /\ Becomes(Cur)
    /\ op' = "compat.pause"
    /\ ret' = CompatCall("pause")
    /\ arg' = "none"
    /\ prevState' = state
    /\ prevTransferred' = transferred
    /\ prevMultiplier' = chunkMultiplier

CompatResume ==
    /\ Becomes(Cur)
    /\ op' = "compat.resume"
    /\ ret' = CompatCall("resume")
    /\ arg' = "none"
    /\ prevState' = state
    /\ prevTransferred' = transferred
    /\ prevMultiplier' = chunkMultiplier

CompatCancel ==
    /\ Becomes(Cur)
    /\ op' = "compat.cancel"
    /\ ret' = CompatCall("cancel")
    /\ arg' = "none"
    /\ prevState' = state
    /\ prevTransferred' = transferred
    /\ prevMultiplier' = chunkMultiplier

\* The runs of a wrapped task: the control operations called on the wrapper and
\* on the delegate, and the events of the delegate's requests.
NextCompat ==
    \/ CompatPause
    \/ CompatResume
    \/ CompatCancel
    \/ Pause
    \/ Resume
    \/ Cancel
    \/ TokenResolved
    \/ CallSucceeds
    \/ CallCanceled
    \/ CallFails

SpecCompat == Init /\ [][NextCompat]_vars

\* ------------------------------------------------------------ properties
Terminal == {"CANCELED", "ERROR", "SUCCESS"}
ControlOps == {"pause", "resume", "cancel"}

\* Everything but the record of the last operation is left as it was.
TaskUnchanged ==
    UNCHANGED <<blobSize, baseChunkSize, resumable, state, transferred, needToFetchStatus,
                needToFetchMetadata, observers, error, uploadUrl, request, chunkMultiplier,
                resolve, metadata, promise, settleCalls, tokens, calls, queue, nextObserver>>

\* The callbacks one notification pass of this step schedules: one per registered
\* observer, in registration order, carrying the values the task has after the step.
Raised(channel, externalState, err) ==
    [i \in 1..Len(observers) |->
        [ obs |-> observers[i], channel |-> channel, state |-> externalState,
          transferred |-> IF channel = "next" THEN transferred' ELSE 0,
          total |-> IF channel = "next" THEN blobSize ELSE 0,
          metadata |-> IF channel = "next" THEN metadata' ELSE "none",
          error |-> err ]]

\* The handle stored in _request has received cancel() and is still outstanding.
HandleCanceled == \E c \in calls' : c.id = request /\ c.canceled

\* C1: the completion promise is settled at most once, exactly when the task has
\* entered a terminal state: fulfilled in SUCCESS, rejected with the stored error in
\* ERROR and CANCELED, pending before; no later notification settles it again.
C1_SettledOnce ==
    /\ settleCalls <= 1
    /\ resolve <=> (settleCalls = 0)
    /\ (settleCalls = 1) <=> (state \in Terminal)
    /\ state = "SUCCESS" => promise.status = "fulfilled"
    /\ state \in {"ERROR", "CANCELED"} => (promise.status = "rejected" /\ promise.error = error)
    /\ state \notin Terminal => promise.status = "pending"

\* An observer was registered after the task was canceled, and the promise was
\* settled once.
C1_Witness == state = "CANCELED" /\ op = "on" /\ settleCalls = 1

\* C2: at most one step is pending: token resolutions and outstanding requests
\* together never number more than one, and _request is exactly the outstanding
\* request.
C2_OneStepPending ==
    /\ Cardinality(tokens) + Cardinality(calls) <= 1
    /\ (request # 0) <=> (calls # {})
    /\ \A c \in calls : c.id = request

\* resume() took effect in PAUSING while the step's token resolution was pending.
C2_Witness ==
    op = "resume" /\ ret /\ prevState = "PAUSING" /\ state = "RUNNING" /\ tokens # {}

TableEdges ==
    { <<"RUNNING", "PAUSING">>, <<"PAUSED", "RUNNING">>, <<"PAUSING", "RUNNING">>,
      <<"RUNNING", "CANCELING">>, <<"PAUSING", "CANCELING">>, <<"CANCELING", "CANCELED">>,
      <<"PAUSING", "PAUSED">>, <<"RUNNING", "ERROR">>, <<"PAUSING", "ERROR">>,
      <<"CANCELING", "ERROR">>, <<"RUNNING", "SUCCESS">> }

\* C3 as stated: every change of state is an edge of the transition table, so
\* SUCCESS is entered only from RUNNING.
C3_TableOnly == [][state' # state => <<state, state'>> \in TableEdges]_vars

\* C3, amended: every change of state is an edge of the transition table or one
\* of PAUSING->SUCCESS and CANCELING->SUCCESS (a request that completes with a
\* final result although pause() or cancel() was called).
C3_Edges ==
    [][state' # state =>
         <<state, state'>> \in
            TableEdges \cup {<<"PAUSING", "SUCCESS">>, <<"CANCELING", "SUCCESS">>}]_vars

\* A request completed with a final result while a cancel was pending.
C3_Witness == state = "SUCCESS" /\ prevState = "CANCELING" /\ op = "success"

\* C4: the stored error is present exactly in ERROR and CANCELED; in CANCELED it
\* is the 'canceled' error, and on entering ERROR it is the failure the failing
\* request (or request construction) reported.
C4_ErrorIffFailed ==
    /\ [](/\ (error # "none") <=> (state \in {"ERROR", "CANCELED"})
          /\ state = "CANCELED" => error = "canceled"
          /\ state = "ERROR" => error \in Failures)
    /\ [][(state' = "ERROR" /\ state # "ERROR") =>
             (op' \in {"failure", "throw"} /\ error' = arg')]_vars

\* A request failed with e2 and the task is in ERROR holding e2.
C4_Witness == state = "ERROR" /\ op = "failure" /\ arg = "e2" /\ error = "e2"

C6_TerminalAbsorbing ==
    /\ [](state \in Terminal =>
            (settleCalls = 1 /\ ~resolve /\ promise.status # "pending"
             /\ tokens = {} /\ calls = {} /\ request = 0))
    /\ [][(state \in Terminal) =>
            (/\ state' = state
             /\ transferred' = transferred
             /\ error' = error
             /\ promise' = promise
             /\ settleCalls' = settleCalls
             /\ tokens' = {}
             /\ calls' = {}
             /\ (op' \in ControlOps => ~ret'))]_vars

\* resume() was called on a canceled task and returned false.
C6_Witness == state = "CANCELED" /\ prevState = "CANCELED" /\ op = "resume" /\ ~ret

\* C7: cancel() called on a PAUSED task returns true and takes the task out of
\* PAUSED (towards CANCELED).
C7_CancelPaused ==
    [][(op' = "cancel" /\ state = "PAUSED") => (ret' /\ state' # "PAUSED")]_vars

\* C8: pause() in RUNNING with a request outstanding cancels that handle within
\* the call and makes the state PAUSING; when the request then reports 'canceled'
\* the state becomes PAUSED, no error is stored, the promise stays pending and
\* every observer is scheduled a progress callback with state paused.
C8_PauseInterrupts ==
    [][/\ (op' = "pause" /\ state = "RUNNING" /\ request # 0) =>
            (state' = "PAUSING" /\ HandleCanceled)
       /\ (op' = "canceled" /\ state = "PAUSING") =>
            (/\ state' = "PAUSED"
             /\ error' = "none"
             /\ promise'.status = "pending"
             /\ settleCalls' = 0
             /\ queue' = queue \o Raised("next", "paused", "none"))]_vars

\* The interrupted request reported 'canceled' in PAUSING and the registered
\* observer was scheduled a paused snapshot.
C8_Witness ==
    /\ op = "canceled" /\ prevState = "PAUSING" /\ state = "PAUSED"
    /\ observers # <<>> /\ queue # <<>>
    /\ queue[Len(queue)].channel = "next" /\ queue[Len(queue)].state = "paused"

\* C9: cancel() that takes effect with a request outstanding cancels that handle;
\* when the request reports 'canceled' in CANCELING the state becomes CANCELED, the
\* stored error is the 'canceled' error, every observer is scheduled an error
\* callback with it and the promise is rejected with it.
C9_CancelInterrupts ==
    [][/\ (op' = "cancel" /\ ret' /\ request # 0) =>
            (state' = "CANCELING" /\ HandleCanceled)
       /\ (op' = "canceled" /\ state = "CANCELING") =>
            (/\ state' = "CANCELED"
             /\ error' = "canceled"
             /\ queue' = queue \o Raised("error", "none", "canceled")
             /\ promise'.status = "rejected"
             /\ promise'.error = "canceled"
             /\ settleCalls' = 1)]_vars

\* The interrupted request reported 'canceled' in CANCELING; the registered
\* observer was scheduled the 'canceled' error and the promise is rejected with it.
C9_Witness ==
    /\ op = "canceled" /\ prevState = "CANCELING" /\ state = "CANCELED"
    /\ observers # <<>> /\ queue # <<>>
    /\ queue[Len(queue)].channel = "error" /\ queue[Len(queue)].error = "canceled"
    /\ promise.status = "rejected" /\ promise.error = "canceled"

IssuedNow == {c \in calls' : \A d \in calls : d.id # c.id}
EndedNow == {c \in calls : \A d \in calls' : d.id # c.id}

\* The step _start() picks for the task as it is before this step.
StepToRedo ==
    IF ~resumable THEN "oneshot"
    ELSE IF uploadUrl = "null" THEN "create"
    ELSE "status"

\* C11 as the specification states it, for every kind of call: a call that
\* reports 'canceled' while the state is RUNNING leaves the task RUNNING with no
\* error, sets the need-status-refetch flag and re-drives the loop, and with a
\* session URL the step that follows is the status fetch.
C11_AnyCallCanceled ==
    [][(op' = "canceled" /\ state = "RUNNING") =>
        (/\ state' = "RUNNING"
         /\ error' = "none"
         /\ needToFetchStatus'
         /\ tokens' # {}
         /\ ((resumable /\ uploadUrl # "null") => (\A k \in tokens' : k.step = "status")))]_vars

\* C11: a create, status, continue or one-shot call that reports 'canceled' while
\* the state is RUNNING leaves the task RUNNING with no error, sets the
\* need-status-refetch flag and starts exactly one step: the status fetch when a
\* session URL exists. An interrupted metadata fetch leaves the flag alone and is
\* started again. The flag is cleared only by a successful status fetch or session
\* creation, and no continue request is made while it is set.
C11_CanceledWhileRunning ==
    [][/\ (op' = "canceled" /\ state = "RUNNING") =>
            (/\ state' = "RUNNING"
             /\ error' = "none"
             /\ calls' = {}
             /\ Cardinality(tokens') = 1
             /\ \A c \in EndedNow :
                    IF c.kind = "metadata"
                    THEN /\ needToFetchStatus' = needToFetchStatus
                         /\ \A k \in tokens' : k.step = "metadata"
                    ELSE /\ needToFetchStatus'
                         /\ \A k \in tokens' : k.step = StepToRedo)
       /\ (needToFetchStatus /\ ~needToFetchStatus') =>
            (op' = "success" /\ \E c \in EndedNow : c.kind \in {"status", "create"})
       /\ \A c \in IssuedNow :
            /\ \E k \in tokens : k.step = c.kind /\ k \notin tokens'
            /\ (c.kind = "continue") => ~needToFetchStatus]_vars

C11_Witness ==
    /\ op = "canceled"
    /\ prevState = "RUNNING"
    /\ state = "RUNNING"
    /\ uploadUrl # "null"
    /\ needToFetchStatus
    /\ \E k \in tokens : k.step = "status"

\* The settled value of a promise rejected with this error.
RejectedWith(e) ==
    [status |-> "rejected", error |-> e, state |-> "none", transferred |-> 0,
     metadata |-> "none"]

\* C12: a request that fails with anything but 'canceled' while the state is
\* RUNNING, PAUSING or CANCELING takes the task to ERROR with that failure as the
\* stored error, raises the error callback of every observer with it, rejects the
\* promise with it and leaves no step pending; in ERROR no request is made.
C12_FailureIsTerminal ==
    [][/\ (op' = "failure") =>
            (/\ state \in {"RUNNING", "PAUSING", "CANCELING"}
             /\ state' = "ERROR"
             /\ error' = arg'
             /\ queue' = queue \o Raised("error", "none", arg')
             /\ promise' = RejectedWith(arg')
             /\ tokens' = {}
             /\ calls' = {})
       /\ (state = "ERROR") => (IssuedNow = {} /\ tokens' = {})]_vars

C12_Witness ==
    /\ op = "failure"
    /\ prevState = "CANCELING"
    /\ state = "ERROR"
    /\ error = arg
    /\ promise = RejectedWith(arg)
    /\ \E i \in 1..Len(queue) : queue[i].channel = "error" /\ queue[i].error = arg

\* C13: when the resolution of the authorization token fails, the task goes to
\* ERROR with the failure as its error and the promise is rejected with it; it
\* is not left in a non-terminal state with no step pending.
C13_TokenFailureIsError ==
    [][(op' = "tokenRejected") =>
        (/\ state' = "ERROR"
         /\ error' = arg'
         /\ promise' = RejectedWith(arg'))]_vars

\* C14: when the token of a pending step arrives, the request of the step is
\* made only if the state is RUNNING; in PAUSING the task becomes PAUSED and in
\* CANCELING it becomes CANCELED (error 'canceled', promise rejected) with no
\* request made. A request is never made in any other way.
C14_TokenArrives ==
    [][/\ (op' = "token") =>
            CASE state = "RUNNING" ->
                    (/\ state' = "RUNNING"
                     /\ Cardinality(IssuedNow) = 1
                     /\ tokens' = {})
              [] state = "PAUSING" ->
                    (/\ state' = "PAUSED"
                     /\ IssuedNow = {}
                     /\ calls' = {}
                     /\ tokens' = {})
              [] state = "CANCELING" ->
                    (/\ state' = "CANCELED"
                     /\ error' = "canceled"
                     /\ promise' = RejectedWith("canceled")
                     /\ IssuedNow = {}
                     /\ calls' = {}
                     /\ tokens' = {})
              [] OTHER -> FALSE
       /\ (IssuedNow # {}) => (op' = "token" /\ state = "RUNNING")]_vars

C14_Witness ==
    /\ op = "token"
    /\ prevState = "PAUSING"
    /\ state = "PAUSED"
    /\ calls = {}
    /\ tokens = {}

\* C15: for a payload of at most 256 KiB every step and request is the one-shot
\* upload; in a run without failures and control operations the task makes one
\* request, the one-shot upload, and in SUCCESS it has made exactly that one and
\* the transferred bytes equal the payload size.
C15_OneShot ==
    (blobSize <= ResumableThreshold) =>
        /\ ~resumable
        /\ \A k \in tokens : k.step = "oneshot"
        /\ \A c \in calls : c.kind = "oneshot"
        /\ quiet =>
              /\ issued \in {<<>>, <<[kind |-> "oneshot", current |-> 0, bytes |-> 0]>>}
              /\ (calls # {} \/ state = "SUCCESS") => (Len(issued) = 1)
              /\ (state = "SUCCESS") => (transferred = blobSize)

C15_Witness ==
    /\ blobSize = ResumableThreshold
    /\ quiet
    /\ state = "SUCCESS"
    /\ Len(issued) = 1
    /\ transferred = blobSize

\* C16: for a payload of more than 256 KiB the upload is resumable; while no
\* session URL is stored every step started and every request made is the
\* session creation (so it is the first request, and is made again after an
\* interrupted creation), and once a URL is stored no step or request is a
\* session creation and the URL never changes; the URL is stored by a successful
\* session creation only.
C16_SessionFirst ==
    [][(blobSize > ResumableThreshold) =>
        (/\ resumable
         /\ \A c \in IssuedNow :
                IF uploadUrl = "null" THEN c.kind = "create"
                ELSE c.kind \in {"status", "continue", "metadata"}
         /\ \A k \in tokens' \ tokens :
                IF uploadUrl' = "null" THEN k.step = "create"
                ELSE k.step \in {"status", "continue", "metadata"}
         /\ (uploadUrl # "null") => (uploadUrl' = uploadUrl)
         /\ (uploadUrl' # uploadUrl) =>
                (op' = "success" /\ \E c \in EndedNow : c.kind = "create")
         /\ (quiet' /\ issued' # <<>>) => (issued'[1].kind = "create"))]_vars

C16_Witness ==
    /\ blobSize > ResumableThreshold
    /\ op = "token"
    /\ uploadUrl = "null"
    /\ needToFetchStatus
    /\ \E c \in calls : c.kind = "create"

\* C17: a resumable task in SUCCESS has transferred exactly the payload size,
\* whether the last chunk or a status fetch told it that the upload is final.
C17_AllTransferred ==
    (resumable /\ state = "SUCCESS") => (transferred = blobSize)

C17_Witness ==
    /\ resumable
    /\ state = "SUCCESS"
    /\ needToFetchMetadata
    /\ op = "success"
    /\ transferred = blobSize

RECURSIVE Pow2(_)
Pow2(n) == IF n = 0 THEN 1 ELSE 2 * Pow2(n - 1)

\* The chunk size after this many continue calls succeeded in a row.
GrownChunk(n) == Min(MaxChunkSize, baseChunkSize * Pow2(n))

\* C18: after N continue calls that succeeded with no failure or interruption
\* between them, the chunk size asked for by the next continue step is
\* min(32 MiB, base * 2^N), and the request carries that many bytes or what is
\* left of the payload.
C18_ChunkGrowth ==
    /\ \A k \in tokens : (k.step = "continue") => (k.chunkSize = GrownChunk(streak))
    /\ \A c \in calls :
          (c.kind = "continue") => (c.bytes = Min(blobSize - c.current, GrownChunk(streak)))

C18_Witness ==
    /\ baseChunkSize * Pow2(streak) > MaxChunkSize
    /\ \E k \in tokens : k.step = "continue" /\ k.chunkSize = MaxChunkSize

\* The run of the scenario: 10 MiB uploaded with a base chunk of 4 MiB, without
\* failures and control operations.
Scenario ==
    /\ blobSize = 10 * 1024 * 1024
    /\ baseChunkSize = 4 * 1024 * 1024
    /\ quiet

\* What was asked of the backend, and from which offset.
Asked == [i \in 1..Len(issued) |-> <<issued[i].kind, issued[i].current>>]

IsPrefix(a, b) == Len(a) <= Len(b) /\ a = SubSeq(b, 1, Len(a))

\* C19 as the specification states it: the scenario makes the session creation
\* and then exactly three continue calls, at offsets 0, 4 MiB and 8 MiB, and ends
\* in SUCCESS with 10 MiB transferred.
C19_ThreeContinues ==
    (Scenario /\ state = "SUCCESS") =>
        /\ Asked = << <<"create", 0>>, <<"continue", 0>>,
                      <<"continue", 4 * 1024 * 1024>>, <<"continue", 8 * 1024 * 1024>> >>
        /\ transferred = 10 * 1024 * 1024

\* C19: the scenario makes the session creation and then exactly two continue
\* calls, 4 MiB from offset 0 and, the chunk size having doubled, the 6 MiB
\* that are left from offset 4 MiB, and ends in SUCCESS with 10 MiB transferred.
C19_TwoContinues ==
    Scenario =>
        /\ IsPrefix(issued, << [kind |-> "create", current |-> 0, bytes |-> 0],
                               [kind |-> "continue", current |-> 0,
                                bytes |-> 4 * 1024 * 1024],
                               [kind |-> "continue", current |-> 4 * 1024 * 1024,
                                bytes |-> 6 * 1024 * 1024] >>)
        /\ (state = "SUCCESS") => (Len(issued) = 3 /\ transferred = 10 * 1024 * 1024)

C19_Witness ==
    /\ Scenario
    /\ state = "SUCCESS"
    /\ Len(issued) = 3
    /\ issued[3].current = 4 * 1024 * 1024

\* What a callback is about: whose it is, its channel, and the state or error
\* it carries.
Routed(q) ==
    [i \in 1..Len(q) |->
        [obs |-> q[i].obs, channel |-> q[i].channel, state |-> q[i].state,
         error |-> q[i].error]]

\* One notification pass over these observers.
Pass(os, channel, externalState, err) ==
    [i \in 1..Len(os) |->
        [obs |-> os[i], channel |-> channel, state |-> externalState, error |-> err]]

\* The pass for a task in this state, holding this error.
PassFor(os, s, err) ==
    CASE s \in {"RUNNING", "PAUSING", "CANCELING"} -> Pass(os, "next", "running", "none")
      [] s = "PAUSED" -> Pass(os, "next", "paused", "none")
      [] s = "SUCCESS" -> Pass(os, "complete", "none", "none")
      [] s \in {"CANCELED", "ERROR"} -> Pass(os, "error", "none", err)

\* The callbacks scheduled in this step.
ScheduledNow == SubSeq(queue', Len(queue) + 1, Len(queue'))

\* The events of this step: the transferred bytes changed; a state was entered
\* that observers are told about.
ProgressEvent == transferred' # transferred
TransitionEvent ==
    /\ state' # state
    /\ \/ state' \in {"PAUSED", "CANCELED", "ERROR", "SUCCESS"}
       \/ state = "PAUSED" /\ state' = "RUNNING"

\* C20: every event is routed to exactly one channel of each observer. A change
\* of the transferred bytes, entering PAUSED and resuming to RUNNING raise next
\* only (with the state running or paused); entering SUCCESS raises complete only
\* and resolves the promise with the snapshot; entering CANCELED or ERROR raises
\* error only, with the stored error, and rejects the promise with that error.
\* Nothing else is scheduled, and a new observer is told the current state on the
\* channel of that state.
C20_OneChannel ==
    [][/\ (op' \notin {"deliver", "on", "unsubscribe"}) =>
            (/\ Len(queue') >= Len(queue)
             /\ Routed(ScheduledNow) =
                    (IF ProgressEvent THEN Pass(observers, "next", "running", "none")
                     ELSE <<>>)
                    \o (IF TransitionEvent THEN PassFor(observers, state', error')
                        ELSE <<>>))
       /\ (op' = "on") =>
            (Routed(ScheduledNow) =
                PassFor(<<observers'[Len(observers')]>>, state, error))
       /\ (state' # state /\ state' = "SUCCESS") =>
            (promise' = [status |-> "fulfilled", error |-> "none", state |-> "success",
                         transferred |-> transferred', metadata |-> metadata'])
       /\ (state' # state /\ state' \in {"CANCELED", "ERROR"}) =>
            (promise' = RejectedWith(error'))
       /\ (state' \notin Terminal) => (promise' = promise /\ promise.status = "pending")]_vars

C20_Witness ==
    /\ op = "success"
    /\ state = "SUCCESS"
    /\ promise.status = "fulfilled"
    /\ Len(queue) > 0
    /\ queue[Len(queue)].channel = "complete"

\* Whose callbacks they are, in order.
Receivers(q) == [i \in 1..Len(q) |-> q[i].obs]

\* C21: the observers are kept in the order of their registration; the callbacks
\* of one event are scheduled for them in that order, behind every callback
\* scheduled before; and the callback that runs is always the oldest one
\* scheduled, so no callback of a later event runs before one of an earlier
\* event.
C21_InOrder ==
    [][/\ (op' = "deliver") => (queue' = Tail(queue))
       /\ (op' # "deliver") => IsPrefix(queue, queue')
       /\ (op' \notin {"deliver", "on", "unsubscribe"}) =>
            (Receivers(ScheduledNow) \in {<<>>, observers, observers \o observers})
       /\ \A i, j \in 1..Len(observers') : (i < j) => (observers'[i] < observers'[j])]_vars

C21_Witness ==
    /\ op = "deliver"
    /\ Len(observers) = 2
    /\ Len(queue) = 3
    /\ Receivers(queue) = <<observers[2], observers[1], observers[2]>>
    /\ queue[1].state # queue[3].state

\* C22: unsubscribing removes that one observer and nothing else: the callbacks
\* already scheduled, for it and for the others, stay scheduled, and the other
\* observers stay registered; every pass raised afterwards is scheduled for
\* exactly the observers registered when it is raised; a new observer gets
\* one callback of its own.
C22_Isolation ==
    [][/\ (op' = "unsubscribe") =>
            (/\ queue' = queue
             /\ \E i \in 1..Len(observers) :
                    observers' = SelectSeq(observers, LAMBDA x : x # observers[i]))
       /\ (op' \notin {"deliver", "on", "unsubscribe"}) =>
            (/\ observers' = observers
             /\ (ScheduledNow # <<>>) =>
                    (Receivers(ScheduledNow) \in {observers, observers \o observers}))
       /\ (op' = "on") =>
            (/\ observers' = Append(observers, nextObserver)
             /\ Receivers(ScheduledNow) = <<nextObserver>>)]_vars

C22_Witness ==
    /\ op = "unsubscribe"
    /\ Len(observers) = 1
    /\ \E i, j \in 1..Len(queue) :
          /\ queue[i].obs = observers[1]
          /\ queue[j].obs # observers[1]
          /\ queue[i].state = queue[j].state

\* C23: on() schedules at once one callback for the new observer, for the state
\* the task is in: the error callback with the stored error, which is the error
\* the promise was rejected with, in CANCELED and ERROR; the complete callback in
\* SUCCESS; otherwise the next callback with the snapshot of the task.
C23_ToldAtOnce ==
    [][(op' = "on") =>
        (/\ Len(queue') = Len(queue) + 1
         /\ IsPrefix(queue, queue')
         /\ queue'[Len(queue')] =
              (CASE state \in {"CANCELED", "ERROR"} ->
                      [obs |-> nextObserver, channel |-> "error", state |-> "none",
                       transferred |-> 0, total |-> 0, metadata |-> "none",
                       error |-> promise.error]
                 [] state = "SUCCESS" ->
                      [obs |-> nextObserver, channel |-> "complete", state |-> "none",
                       transferred |-> 0, total |-> 0, metadata |-> "none",
                       error |-> "none"]
                 [] OTHER ->
                      [obs |-> nextObserver, channel |-> "next",
                       state |-> IF state = "PAUSED" THEN "paused" ELSE "running",
                       transferred |-> transferred, total |-> blobSize,
                       metadata |-> metadata, error |-> "none"])
         /\ (state \in {"CANCELED", "ERROR"}) =>
                (promise.status = "rejected" /\ promise.error = error /\ error # "none"))]_vars

C23_Witness ==
    /\ op = "on"
    /\ state = "ERROR"
    /\ promise.status = "rejected"
    /\ queue # <<>>
    /\ queue[Len(queue)].channel = "error"
    /\ queue[Len(queue)].error = promise.error

\* C24: resume() in PAUSED returns true, makes the task RUNNING, schedules the
\* next callback with the state running for every observer and starts one step,
\* which waits for its token: nothing of that step has happened yet, and what it
\* raises later is scheduled behind these callbacks.
C24_RunningFirst ==
    [][/\ (op' = "resume" /\ state = "PAUSED") =>
            (/\ ret'
             /\ state' = "RUNNING"
             /\ queue' = queue \o Raised("next", "running", "none")
             /\ tokens = {}
             /\ Cardinality(tokens') = 1
             /\ calls' = {}
             /\ transferred' = transferred)
       /\ (op' \in {"token", "success", "failure", "canceled", "progress"}) =>
            IsPrefix(queue, queue')]_vars

C24_Witness ==
    /\ op = "resume"
    /\ prevState = "PAUSED"
    /\ state = "RUNNING"
    /\ tokens # {}
    /\ queue # <<>>
    /\ queue[Len(queue)].channel = "next"
    /\ queue[Len(queue)].state = "running"

\* C25: in the runs with pause() and resume() only, resume() after a pause that
\* took effect returns true and makes the task RUNNING; a task that is RUNNING or
\* PAUSING has exactly one step pending and a PAUSED task none; the only terminal
\* state is SUCCESS, with all of the payload transferred; and once pause() is no
\* longer called the task reaches SUCCESS.
C25_RoundTrip ==
    /\ [][(op' = "resume" /\ state \in {"PAUSING", "PAUSED"}) =>
            (ret' /\ state' = "RUNNING")]_vars
    /\ []((state \in {"RUNNING", "PAUSING"}) =>
            (Cardinality(tokens) + Cardinality(calls) = 1))
    /\ []((state = "PAUSED") => (tokens = {} /\ calls = {}))
    /\ []((state \in Terminal) => (state = "SUCCESS" /\ transferred = blobSize))
    /\ ((<>[][op' # "pause"]_vars) => <>(state = "SUCCESS"))

C25_Witness ==
    /\ state = "SUCCESS"
    /\ transferred = blobSize
    /\ needToFetchMetadata
    /\ ~quiet
    /\ error = "none"

\* C26: the transferred bytes stay between 0 and the payload size, the payload
\* size never changes, and the transferred bytes go down only when a status
\* fetch succeeds and reports a smaller offset.
C26_WithinPayload ==
    [][/\ 0 <= transferred'
       /\ transferred' <= blobSize'
       /\ blobSize' = blobSize
       /\ (transferred' < transferred) =>
            (op' = "success" /\ \E c \in EndedNow : c.kind = "status")]_vars

C26_Witness ==
    /\ op = "success"
    /\ transferred < prevTransferred
    /\ state = "RUNNING"
    /\ \E k \in tokens : k.step = "continue" /\ k.current = transferred

\* The metadata the task holds when the progress of this step is raised: the
\* one-shot upload stores the metadata of the backend first, the other steps
\* raise progress before they store any.
MetadataAtProgress ==
    IF \E c \in EndedNow : c.kind = "oneshot" THEN metadata' ELSE metadata

\* C27: a callback carries the transferred bytes, payload size, state and
\* metadata (or the error) the task has at the moment it is scheduled, and
\* keeps them while it waits, whatever the task does meanwhile; the promise
\* is settled with the values of the moment it is settled and keeps them.
C27_ValuesOfTheMoment ==
    [][/\ (op' # "deliver") => IsPrefix(queue, queue')
       /\ (op' = "deliver") => (queue' = Tail(queue))
       /\ (op' \notin {"deliver", "on", "unsubscribe"}) =>
            (ScheduledNow =
                (IF ProgressEvent
                 THEN [i \in 1..Len(observers) |->
                          [obs |-> observers[i], channel |-> "next", state |-> "running",
                           transferred |-> transferred', total |-> blobSize,
                           metadata |-> MetadataAtProgress, error |-> "none"]]
                 ELSE <<>>)
                \o (IF TransitionEvent
                    THEN Raised(PassFor(<<0>>, state', error')[1].channel,
                                PassFor(<<0>>, state', error')[1].state, error')
                    ELSE <<>>))
       /\ (promise.status # "pending") => (promise' = promise)
       /\ (promise.status = "pending" /\ promise'.status = "fulfilled") =>
            (promise' = [status |-> "fulfilled", error |-> "none", state |-> "success",
                         transferred |-> transferred', metadata |-> metadata'])
       /\ (promise.status = "pending" /\ promise'.status = "rejected") =>
            (promise' = RejectedWith(error'))]_vars

C27_Witness ==
    /\ queue # <<>>
    /\ queue[1].channel = "next"
    /\ queue[1].state = "running"
    /\ queue[1].transferred < transferred
    /\ state = "PAUSED"

C29_TrackedRequests ==
    [][/\ (~deleted') =>
            (/\ requests' = {c.id : c \in calls'}
             /\ \A c \in calls' : ~c.fail)
       /\ deleted' =>
            (/\ requests' = {}
             /\ \A c \in calls' : c.fail \/ c.canceled)
       /\ (op' = "deleteApp") =>
            (/\ ~deleted
             /\ deleted'
             /\ calls' = {[c EXCEPT !.canceled = TRUE] : c \in calls})
       /\ deleted => (\A c \in IssuedNow : c.fail /\ c.id \notin requests')
       /\ \A c \in EndedNow : c.fail => (op' = "failure" /\ arg' = "appDeleted")]_vars

C29_Witness ==
    /\ op = "deleteApp"
    /\ deleted
    /\ requests = {}
    /\ \E c \in calls : c.canceled /\ ~c.fail
    /\ state = "RUNNING"

\* C30: when a status fetch succeeds in RUNNING the transferred bytes become the
\* offset it reported, the need-status-refetch flag is cleared, and one step is
\* started: the metadata fetch if the session was reported final, otherwise a
\* continue from the reported offset with the base chunk size. The flag is set
\* again only when a request reports 'canceled', and a status fetch is started
\* or made only while the flag is set.
C30_AfterStatus ==
    [][/\ (op' = "success" /\ state = "RUNNING" /\ \E c \in EndedNow : c.kind = "status") =>
            (/\ state' = "RUNNING"
             /\ transferred' = reported'
             /\ ~needToFetchStatus'
             /\ calls' = {}
             /\ Cardinality(tokens') = 1
             /\ \A k \in tokens' :
                    IF needToFetchMetadata'
                    THEN k.step = "metadata" /\ transferred' = blobSize
                    ELSE /\ k.step = "continue"
                         /\ k.current = reported'
                         /\ k.chunkSize = baseChunkSize)
       /\ (~needToFetchStatus /\ needToFetchStatus') => (op' = "canceled")
       /\ \A k \in tokens' \ tokens : (k.step = "status") => needToFetchStatus'
       /\ \A c \in IssuedNow : (c.kind = "status") => needToFetchStatus]_vars

C30_Witness ==
    /\ op = "success"
    /\ prevState = "RUNNING"
    /\ state = "RUNNING"
    /\ reported = transferred
    /\ reported < prevTransferred
    /\ ~needToFetchStatus
    /\ ~needToFetchMetadata
    /\ \E k \in tokens : k.step = "continue" /\ k.current = reported

\* C31: resume() in PAUSING returns true and only sets the state to RUNNING: no
\* callback is scheduled and no step is started, what was pending stays pending.
\* When that pending token then arrives or that pending request ends (with a
\* result or with 'canceled'), it is handled in RUNNING: the task does not become
\* PAUSED, and if it stays RUNNING exactly one step is pending again.
C31_ResumeWhilePausing ==
    [][/\ (op' = "resume" /\ state = "PAUSING") =>
            (/\ ret'
             /\ state' = "RUNNING"
             /\ UNCHANGED <<transferred, needToFetchStatus, needToFetchMetadata, observers,
                            error, uploadUrl, request, chunkMultiplier, resolve, metadata,
                            promise, settleCalls, tokens, calls, queue, nextObserver>>)
       /\ (/\ op = "resume" /\ prevState = "PAUSING" /\ ret
           /\ op' \in {"token", "success", "canceled"}) =>
            (/\ state' \in {"RUNNING", "SUCCESS"}
             /\ Cardinality(tokens') + Cardinality(calls') =
                    (IF state' = "RUNNING" THEN 1 ELSE 0)
             /\ op' = "token" => (calls' # {} /\ IssuedNow = calls'))]_vars

\* resume() took effect in PAUSING with an observer registered and the aborted
\* request still outstanding: nothing was scheduled for the observer.
C31_Witness ==
    /\ op = "resume"
    /\ ret
    /\ prevState = "PAUSING"
    /\ state = "RUNNING"
    /\ observers # <<>>
    /\ queue = <<>>
    /\ \E c \in calls : c.canceled /\ c.id = request

\* C32: when a session creation, status fetch, continue or one-shot request fails
\* or reports 'canceled', whatever the state, the chunk multiplier becomes 1, and
\* a continue step started while no continue has succeeded since asks for the
\* base chunk size (its request carries that many bytes, or what is left). A
\* continue step always asks for base * multiplier. Nothing else lowers the
\* multiplier: a pause completed by the arrival of the token leaves it as it
\* was, and one completed by the success of the request does not lower it.
C32_ResetOnFailure ==
    [][/\ (/\ op' \in {"failure", "canceled"}
           /\ \E c \in EndedNow : c.kind \in {"create", "status", "continue", "oneshot"}) =>
            chunkMultiplier' = 1
       /\ \A k \in tokens' \ tokens :
            (k.step = "continue") =>
                (/\ k.chunkSize = baseChunkSize * chunkMultiplier'
                 /\ (streak' = 0) => (k.chunkSize = baseChunkSize))
       /\ \A c \in IssuedNow :
            (c.kind = "continue" /\ streak' = 0) =>
                (c.bytes = Min(baseChunkSize, blobSize - c.current))
       /\ (chunkMultiplier' < chunkMultiplier) => (op' \in {"failure", "canceled"})
       /\ (state = "PAUSING" /\ state' = "PAUSED" /\ op' = "token") =>
            (chunkMultiplier' = chunkMultiplier)
       /\ (state = "PAUSING" /\ state' = "PAUSED" /\ op' = "success") =>
            (chunkMultiplier' >= chunkMultiplier)]_vars

\* The request aborted by pause() reported 'canceled' when the multiplier had
\* grown: the task is PAUSED with the multiplier back at 1.
C32_Witness ==
    /\ op = "canceled"
    /\ prevState = "PAUSING"
    /\ state = "PAUSED"
    /\ prevMultiplier > 1
    /\ chunkMultiplier = 1
    /\ streak = 0

RECURSIVE IsPowerOfTwo(_)
IsPowerOfTwo(n) == n = 1 \/ (n > 1 /\ n % 2 = 0 /\ IsPowerOfTwo(n \div 2))

\* C33: the chunk multiplier is always a power of two, at least 1, and the chunk
\* size base * multiplier is at most 32 MiB: no continue step asks for more and
\* no continue request carries more.
C33_MultiplierBounded ==
    /\ chunkMultiplier >= 1
    /\ IsPowerOfTwo(chunkMultiplier)
    /\ baseChunkSize * chunkMultiplier <= MaxChunkSize
    /\ \A k \in tokens :
          (k.step = "continue") =>
              (/\ k.chunkSize <= MaxChunkSize
               /\ k.chunkSize = baseChunkSize * chunkMultiplier)
    /\ \A c \in calls : (c.kind = "continue") => (c.bytes <= MaxChunkSize)

\* A continue of 32 MiB succeeded and the multiplier stayed where it was; the
\* continue step that follows asks for 32 MiB again.
C33_Witness ==
    /\ op = "success"
    /\ state = "RUNNING"
    /\ prevMultiplier = chunkMultiplier
    /\ baseChunkSize * chunkMultiplier = MaxChunkSize
    /\ \E k \in tokens : k.step = "continue" /\ k.chunkSize = MaxChunkSize

\* The request that ended in this step returned a final result: it is the
\* metadata fetch, the one-shot upload, or the continue that carried the last
\* bytes of the payload.
FinalResult ==
    \E c \in EndedNow :
        \/ c.kind \in {"metadata", "oneshot"}
        \/ c.kind = "continue" /\ c.current + c.bytes = blobSize

\* C34: a request that succeeds while the task is PAUSING or CANCELING makes the
\* task SUCCESS and fulfils the promise if its result is final, cancel() having
\* returned true or not; otherwise it completes the pause (PAUSED, promise
\* pending) or the cancel (CANCELED, promise rejected with 'canceled').
C34_FinalResultWins ==
    [][(op' = "success" /\ state \in {"PAUSING", "CANCELING"}) =>
          IF FinalResult
          THEN /\ state' = "SUCCESS"
               /\ promise'.status = "fulfilled"
               /\ promise'.state = "success"
               /\ settleCalls' = 1
               /\ error' = "none"
               /\ tokens' = {} /\ calls' = {}
          ELSE /\ state' = (IF state = "PAUSING" THEN "PAUSED" ELSE "CANCELED")
               /\ promise'.status = (IF state = "PAUSING" THEN "pending" ELSE "rejected")
               /\ (state = "CANCELING") => (error' = "canceled" /\ promise'.error = "canceled")
               /\ tokens' = {} /\ calls' = {}]_vars

\* The last continue of a resumable upload, or its metadata fetch, succeeded
\* after cancel() had taken effect: the promise is fulfilled.
C34_Witness ==
    /\ op = "success"
    /\ prevState = "CANCELING"
    /\ state = "SUCCESS"
    /\ resumable
    /\ transferred = blobSize
    /\ promise.status = "fulfilled"
    /\ error = "none"

\* C35: the need-metadata-fetch flag is set only by a status fetch that succeeds,
\* and is never cleared. From then on the need-status-refetch flag stays clear,
\* every step started and every request made is the metadata fetch, also after
\* that fetch reported 'canceled', and the task becomes SUCCESS only by a
\* metadata fetch that succeeds, with the metadata it returned.
C35_OnlyMetadataAfterFinal ==
    [][/\ (~needToFetchMetadata /\ needToFetchMetadata') =>
            (op' = "success" /\ \E c \in EndedNow : c.kind = "status")
       /\ needToFetchMetadata => needToFetchMetadata'
       /\ needToFetchMetadata' =>
            (/\ ~needToFetchStatus'
             /\ uploadUrl' # "null"
             /\ \A k \in tokens' \ tokens : k.step = "metadata"
             /\ \A c \in IssuedNow : c.kind = "metadata")
       /\ (needToFetchMetadata /\ state # "SUCCESS" /\ state' = "SUCCESS") =>
            (/\ op' = "success"
             /\ \E c \in EndedNow : c.kind = "metadata"
             /\ metadata' \in ServerMetadata
             /\ promise'.metadata = metadata')]_vars

\* The metadata fetch that follows a final status report was aborted by pause(),
\* resume() came before it reported 'canceled', and the step started next is the
\* metadata fetch again.
C35_Witness ==
    /\ op = "canceled"
    /\ prevState = "RUNNING"
    /\ state = "RUNNING"
    /\ needToFetchMetadata
    /\ ~needToFetchStatus
    /\ \E k \in tokens : k.step = "metadata"

\* C36: for a payload of at most 256 KiB every step and every request is the
\* one-shot upload and no session is created. A one-shot request that reports
\* 'canceled' in RUNNING sets the need-status-refetch flag and a new one-shot
\* step is started at once; reported in PAUSING it leaves the task PAUSED with
\* the flag set, and resume() then starts a new one-shot step. A one-shot request
\* that succeeds ends the upload with the whole payload transferred.
C36_OneShotOnly ==
    [][(blobSize <= ResumableThreshold) =>
          (/\ ~resumable
           /\ uploadUrl' = "null"
           /\ ~needToFetchMetadata'
           /\ \A k \in tokens' : k.step = "oneshot"
           /\ \A c \in calls' : c.kind = "oneshot" /\ c.current = 0
           /\ (op' = "canceled") =>
                (/\ needToFetchStatus'
                 /\ calls' = {}
                 /\ state = "RUNNING" => (state' = "RUNNING" /\ Cardinality(tokens') = 1)
                 /\ state = "PAUSING" => (state' = "PAUSED" /\ tokens' = {}))
           /\ (op' = "resume" /\ state = "PAUSED") =>
                (state' = "RUNNING" /\ Cardinality(tokens') = 1 /\ calls' = {})
           /\ (op' = "success") => (state' = "SUCCESS" /\ transferred' = blobSize))]_vars

\* A payload of exactly 256 KiB: its one-shot request was aborted by pause() and
\* reported 'canceled', and resume() has started the one-shot step again with
\* the need-status-refetch flag set.
C36_Witness ==
    /\ blobSize = ResumableThreshold
    /\ op = "resume"
    /\ prevState = "PAUSED"
    /\ state = "RUNNING"
    /\ needToFetchStatus
    /\ \E k \in tokens : k.step = "oneshot"

\* C37 as the specification states it: a RUNNING task always has a token
\* resolution or a request pending (it is never RUNNING and idle), which is what
\* lets every completed token resolution and request carry the upload on to
\* SUCCESS, ERROR or CANCELED.
C37_NeverIdle ==
    (state = "RUNNING") => (tokens # {} \/ calls # {})

\* C38 as the specification states it: a task in PAUSING or CANCELING always has
\* a token resolution or a request pending, whose completion takes it out of the
\* transient state.
C38_TransientPending ==
    (state \in {"PAUSING", "CANCELING"}) => (tokens # {} \/ calls # {})

\* C39 as the specification states it: pause(), resume() and cancel() of the
\* compat wrapper return what the same operation of the wrapped task returns in
\* that state and leave the wrapped task in the state that operation leaves it
\* in; resume() of the wrapper on a PAUSED task returns true and makes it RUNNING.
C39_CompatForwards ==
    [][/\ (op' = "compat.pause") =>
            (ret' = pause(Cur).ret /\ state' = pause(Cur).task.state)
       /\ (op' = "compat.resume") =>
            (ret' = resume(Cur).ret /\ state' = resume(Cur).task.state)
       /\ (op' = "compat.cancel") =>
            (ret' = cancel(Cur).ret /\ state' = cancel(Cur).task.state)]_vars
====
